---------------------------- MODULE Spec2Model ----------------------------
(***************************************************************************)
(* A model of homeassistant/components/voip/sip.py: the SIP datagram       *)
(* protocol (datagram_received, answer, _parse_sip) together with the      *)
(* Python string operations it relies on.                                  *)
(*                                                                         *)
(* A Python str is a sequence of Unicode code points (naturals), a bytes   *)
(* object a sequence of naturals below 256.  An Optional value is a        *)
(* sequence of length at most one: None is << >>, a value x is << x >>.    *)
(* A raised exception is the name of its class ("none": nothing raised).   *)
(***************************************************************************)
EXTENDS Integers, Sequences, FiniteSets, TLC

(***************************************************************************)
(* Characters and literals.                                                *)
(***************************************************************************)

\* The printable ASCII characters in code order, 32 (space) to 126 (~); the
\* grave accent (96), which a TLA+ string cannot hold, is written U+0060.
Printable ==
    << " ", "!", "\"", "#", "$", "%", "&", "'", "(", ")", "*", "+", ",", "-", ".", "/",
       "0", "1", "2", "3", "4", "5", "6", "7", "8", "9", ":", ";", "<", "=", ">", "?",
       "@", "A", "B", "C", "D", "E", "F", "G", "H", "I", "J", "K", "L", "M", "N", "O",
       "P", "Q", "R", "S", "T", "U", "V", "W", "X", "Y", "Z", "[", "\\", "]", "^", "_",
       "U+0060", "a", "b", "c", "d", "e", "f", "g", "h", "i", "j", "k", "l", "m", "n", "o",
       "p", "q", "r", "s", "t", "u", "v", "w", "x", "y", "z", "{", "|", "}", "~" >>

\* ord(ch) of a one-character literal.
Ord(ch) ==
    CASE ch = "\t" -> 9
      [] ch = "\n" -> 10
      [] ch = "\r" -> 13
      [] OTHER -> 31 + (CHOOSE i \in 1..Len(Printable) : Printable[i] = ch)

\* The str a literal denotes: its code points.
Str(lit) == [i \in 1..Len(lit) |-> Ord(lit[i])]

None == << >>
Some(x) == << x >>

\* s[i:] and s[:i] of Python, i >= 0 counted from 0.
From(s, i) == IF i >= Len(s) THEN << >> ELSE SubSeq(s, i + 1, Len(s))
Upto(s, i) == IF i >= Len(s) THEN s ELSE SubSeq(s, 1, i)

\* str.isspace() of one character.
IsSpace(c) ==
    \/ c \in 9..13
    \/ c \in 28..32
    \/ c \in {133, 160, 5760, 8232, 8233, 8239, 8287, 12288}
    \/ c \in 8192..8202

\* The line boundaries of str.splitlines(); "\r\n" counts as one.
IsLineBreak(c) == c \in {10, 11, 12, 13, 28, 29, 30, 133, 8232, 8233}

\* The first code point of the decimal-digit blocks (category Nd) modelled:
\* ASCII, Arabic-Indic, Extended Arabic-Indic, Devanagari, Fullwidth.
DigitBlocks == {48, 1632, 1776, 2406, 65296}

\* A decimal digit, as the str pattern \d and int() see it.
IsDigit(c) == \E z \in DigitBlocks : c \in z..(z + 9)
DigitValue(c) == c - (CHOOSE z \in DigitBlocks : c \in z..(z + 9))

\* str.lower() of one character: ASCII and Latin-1 letters; the other
\* characters the model feeds it (digits, punctuation) have no case.
LowerChar(c) ==
    IF c \in 65..90 \/ (c \in 192..222 /\ c # 215) THEN c + 32 ELSE c

Lower(s) == [i \in 1..Len(s) |-> LowerChar(s[i])]

(***************************************************************************)
(* Python's str and bytes methods.                                         *)
(***************************************************************************)

\* str.strip(): leading and trailing whitespace removed.
Strip(s) ==
    LET keep == {i \in 1..Len(s) : ~IsSpace(s[i])}
    IN  IF keep = {} THEN << >>
        ELSE LET lo == CHOOSE i \in keep : \A j \in keep : i <= j
                 hi == CHOOSE i \in keep : \A j \in keep : j <= i
             IN  SubSeq(s, lo, hi)

\* The elements of a set of numbers in increasing order.
Sorted(S) ==
    [j \in 1..Cardinality(S) |->
        CHOOSE t \in S : Cardinality({u \in S : u < t}) = j - 1]

RECURSIVE Concat(_, _, _)
\* parts[lo] \o ... \o parts[hi], by halves.
Concat(parts, lo, hi) ==
    IF lo > hi THEN << >>
    ELSE IF lo = hi THEN parts[lo]
    ELSE LET mid == (lo + hi) \div 2
         IN  Concat(parts, lo, mid) \o Concat(parts, mid + 1, hi)

\* str.splitlines(): the lines without their terminators; no final empty
\* line after a trailing terminator.
SplitLines(s) ==
    LET n == Len(s)
        \* where a terminator starts ("\n" right after "\r" is its second half)
        starts == {i \in 1..n : IsLineBreak(s[i])
                                /\ ~(s[i] = 10 /\ i > 1 /\ s[i - 1] = 13)}
        t == Sorted(starts)
        After(i) == IF s[i] = 13 /\ i < n /\ s[i + 1] = 10 THEN i + 2 ELSE i + 1
        First(j) == IF j = 1 THEN 1 ELSE After(t[j - 1])
        k == Len(t)
        lines == [j \in 1..k |-> SubSeq(s, First(j), t[j] - 1)]
    IN  IF First(k + 1) <= n
        THEN Append(lines, SubSeq(s, First(k + 1), n))
        ELSE lines

\* str.split(): the maximal runs of non-whitespace.
Split(s) ==
    LET n == Len(s)
        starts == {i \in 1..n : ~IsSpace(s[i]) /\ (i = 1 \/ IsSpace(s[i - 1]))}
        ends == {i \in 1..n : ~IsSpace(s[i]) /\ (i = n \/ IsSpace(s[i + 1]))}
        b == Sorted(starts)
        e == Sorted(ends)
    IN  [j \in 1..Len(b) |-> SubSeq(s, b[j], e[j])]

\* str.split(sep, maxsplit=1) for a one-character sep.
SplitOnce(s, sep) ==
    LET at == {i \in 1..Len(s) : s[i] = sep}
    IN  IF at = {} THEN << s >>
        ELSE LET p == CHOOSE i \in at : \A j \in at : i <= j
             IN  << SubSeq(s, 1, p - 1), SubSeq(s, p + 1, Len(s)) >>

\* sep.join(parts)
Join(sep, parts) ==
    Concat([i \in 1..Len(parts) |-> IF i = 1 THEN parts[i] ELSE sep \o parts[i]],
           1, Len(parts))

RECURSIVE DigitsOf(_)
DigitsOf(n) ==
    IF n < 10 THEN << 48 + n >> ELSE Append(DigitsOf(n \div 10), 48 + (n % 10))

\* str(n) of an int.
IntToStr(n) == IF n < 0 THEN << 45 >> \o DigitsOf(0 - n) ELSE DigitsOf(n)

RECURSIVE DigitsValue(_, _, _)
\* The value of digits (with single underscores between them), or None.
DigitsValue(s, i, acc) ==
    IF i > Len(s) THEN Some(acc)
    ELSE IF IsDigit(s[i]) THEN DigitsValue(s, i + 1, 10 * acc + DigitValue(s[i]))
    ELSE IF s[i] = 95 /\ i > 1 /\ i < Len(s) /\ IsDigit(s[i - 1]) /\ IsDigit(s[i + 1])
         THEN DigitsValue(s, i + 1, acc)
    ELSE None

\* int(s) of a str, base 10: Some(value), or None where int raises ValueError.
ParseInt(s) ==
    LET t == Strip(s)
        neg == t # << >> /\ t[1] = 45
        signed == t # << >> /\ t[1] \in {43, 45}
        digits == IF signed THEN Tail(t) ELSE t
        v == IF digits = << >> \/ ~IsDigit(digits[1]) THEN None
             ELSE DigitsValue(digits, 1, 0)
    IN  IF v = None THEN None ELSE Some(IF neg THEN 0 - v[1] ELSE v[1])

\* The UTF-8 encoding of one code point.
EncodeChar(c) ==
    IF c < 128 THEN << c >>
    ELSE IF c < 2048 THEN << 192 + (c \div 64), 128 + (c % 64) >>
    ELSE IF c < 65536
         THEN << 224 + (c \div 4096), 128 + ((c \div 64) % 64), 128 + (c % 64) >>
    ELSE << 240 + (c \div 262144), 128 + ((c \div 4096) % 64),
            128 + ((c \div 64) % 64), 128 + (c % 64) >>

\* str.encode(): UTF-8 (ASCII text is its own encoding).
Encode(s) ==
    IF \A i \in 1..Len(s) : s[i] < 128 THEN s
    ELSE Concat([i \in 1..Len(s) |-> EncodeChar(s[i])], 1, Len(s))

IsCont(b, i) == i >= 1 /\ i <= Len(b) /\ b[i] \in 128..191

\* How many bytes the character that starts with byte x takes; 0 when x
\* starts none.
Width(x) ==
    IF x < 128 THEN 1
    ELSE IF x \in 194..223 THEN 2
    ELSE IF x \in 224..239 THEN 3
    ELSE IF x \in 240..244 THEN 4
    ELSE 0

\* b[i] starts a well-formed character: its continuation bytes follow, and
\* it is neither overlong, a surrogate nor beyond U+10FFFF.
StartsChar(b, i) ==
    LET x == b[i]
        w == Width(x)
    IN  /\ w > 0
        /\ \A j \in (i + 1)..(i + w - 1) : IsCont(b, j)
        /\ (x = 224 => b[i + 1] >= 160)
        /\ (x = 237 => b[i + 1] <= 159)
        /\ (x = 240 => b[i + 1] >= 144)
        /\ (x = 244 => b[i + 1] <= 143)

\* The code point of the character that starts at b[i].
CodePoint(b, i) ==
    LET x == b[i]
        w == Width(x)
        c(j) == b[i + j] - 128
    IN  CASE w = 1 -> x
          [] w = 2 -> (x - 192) * 64 + c(1)
          [] w = 3 -> (x - 224) * 4096 + c(1) * 64 + c(2)
          [] w = 4 -> (x - 240) * 262144 + c(1) * 4096 + c(2) * 64 + c(3)

\* bytes.decode(): strict UTF-8; None where it raises UnicodeDecodeError.
Decode(b) ==
    LET n == Len(b)
        \* a continuation byte belongs to the character that starts 1 to 3
        \* bytes before it
        Owned(j) == \E i \in (j - 3)..(j - 1) :
                        /\ i >= 1 /\ ~IsCont(b, i) /\ i + Width(b[i]) > j
                        /\ \A k \in (i + 1)..j : IsCont(b, k)
        valid == \A i \in 1..n :
                    IF IsCont(b, i) THEN Owned(i) ELSE StartsChar(b, i)
    IN  IF \A i \in 1..n : b[i] < 128 THEN Some(b)
        ELSE IF valid
        THEN Some(Concat([i \in 1..n |-> IF IsCont(b, i) THEN << >>
                                          ELSE << CodePoint(b, i) >>], 1, n))
        ELSE None

(***************************************************************************)
(* The module's constants.                                                 *)
(***************************************************************************)

CRLF == Str(<<"\r","\n">>)
SDP_USERNAME == Str(<<"h","o","m","e","a","s","s","i","s","t","a","n","t">>)
\* "".join(str(ord(c)) for c in "hass")
SDP_ID ==
    LET hass == Str(<<"h","a","s","s">>)
    IN  Join(<< >>, [i \in 1..Len(hass) |-> IntToStr(hass[i])])
OPUS_PAYLOAD == Str(<<"1","2","3">>)

Colon == Ord(":")
Dot == Ord(".")
Semicolon == Ord(";")
Greater == Ord(">")
Equals == Ord("=")
LitInvite == Str(<<"i","n","v","i","t","e">>)
LitM == Str(<<"m">>)
LitAudio == Str(<<"a","u","d","i","o">>)
LitTo == Str(<<"t","o">>)
LitSipOpen == Str(<<"<","s","i","p",":">>)

\* Where the maximal run of decimal digits that starts at s[i] ends (the
\* index after it).
RECURSIVE RunEnd(_, _)
RunEnd(s, i) == IF i <= Len(s) /\ IsDigit(s[i]) THEN RunEnd(s, i + 1) ELSE i

At(s, i, c) == i <= Len(s) /\ s[i] = c

\* The tail of _SIP_IP after ">": (;.+)?$ where "." is any character but "\n"
\* and "$" is the end, or the place before a final "\n".
ParamsMatch(r) ==
    LET chop(t) == IF t # << >> /\ t[Len(t)] = 10 THEN Upto(t, Len(t) - 1) ELSE t
    IN  \/ chop(r) = << >>
        \/ /\ r # << >> /\ r[1] = Semicolon
           /\ LET t == chop(Tail(r))
              IN  t # << >> /\ \A i \in 1..Len(t) : t[i] # 10

\* \d{1,3} at s[i], and "\." after it unless it is the last octet: the index
\* after them, or 0.
Octet(s, i, last) ==
    LET e == RunEnd(s, i)
    IN  IF i > 0 /\ e - i \in 1..3 /\ (last \/ At(s, e, Dot))
        THEN (IF last THEN e ELSE e + 1) ELSE 0

\* PortEnd of a pattern whose port is optional, (:\d+)?: the properties of
\* the To header tell it from PortEnd.
PortEndOptional(s, i) ==
    IF i > 0 /\ At(s, i, Colon) /\ RunEnd(s, i + 1) > i + 1
    THEN RunEnd(s, i + 1) ELSE i

\* :\d+ at s[i]: the index after it, or 0.
PortEnd(s, i) ==
    LET e == RunEnd(s, i + 1)
    IN  IF i > 0 /\ At(s, i, Colon) /\ e > i + 1 THEN e ELSE 0

\* _SIP_IP.match(s): Some(group(1)), or None where there is no match.
SIP_IP_Match(s) ==
    LET b2 == Octet(s, 6, FALSE)
        b3 == Octet(s, b2, FALSE)
        b4 == Octet(s, b3, FALSE)
        e4 == Octet(s, b4, TRUE)
        pe == PortEnd(s, e4)
    IN  IF /\ Upto(s, 5) = LitSipOpen
           /\ pe > 0
           /\ At(s, pe, Greater)
           /\ ParamsMatch(From(s, pe))
        THEN Some(SubSeq(s, 6, e4 - 1))
        ELSE None

\* headers[key] = value of a dict.
DictSet(d, key, value) == (key :> value) @@ d
EmptyDict == << >>

(***************************************************************************)
(* SIPDatagramProtocol._parse_sip                                          *)
(***************************************************************************)

RECURSIVE ParseLines(_, _, _, _, _)
\* The for loop over enumerate(lines); i counts from 1.
ParseLines(lines, i, method, headers, offset) ==
    IF i > Len(lines)
    THEN [exc |-> "none", method |-> method, headers |-> headers,
          offset |-> offset]
    ELSE LET line == lines[i]
             off == IF line # << >> THEN offset + Len(line) + Len(CRLF)
                    ELSE offset
         IN  IF i = 1
             THEN LET tokens == Split(line)
                  IN  IF tokens = << >>
                      THEN [exc |-> "IndexError", method |-> method,
                            headers |-> headers, offset |-> off]
                      ELSE ParseLines(lines, i + 1, Some(tokens[1]), headers, off)
             ELSE IF line = << >>
             THEN [exc |-> "none", method |-> method, headers |-> headers,
                   offset |-> off]
             ELSE LET kv == SplitOnce(line, Colon)
                  IN  IF Len(kv) # 2
                      THEN [exc |-> "ValueError", method |-> method,
                            headers |-> headers, offset |-> off]
                      ELSE ParseLines(lines, i + 1, method,
                                      DictSet(headers, Lower(kv[1]), Strip(kv[2])),
                                      off)

\* body = message[offset:] and the return, after the loop ended as r.
ParseReturn(message, r) ==
    [exc |-> r.exc, method |-> r.method, headers |-> r.headers,
     body |-> IF r.exc = "none" THEN From(message, r.offset) ELSE << >>]

\* _parse_sip(message): exc is the exception raised ("none": it returned
\* method (an Optional), headers and body).
parse_sip(message) ==
    ParseReturn(message, ParseLines(SplitLines(message), 1, None, EmptyDict, 0))

(***************************************************************************)
(* SIPDatagramProtocol.datagram_received                                   *)
(***************************************************************************)

\* IsAudio of a loop that takes the port of any media line.
IsAudioAny(parts) == TRUE

\* parts[0] == "audio"
IsAudio(parts) == parts[1] = LitAudio

\* AssignPort of a loop that keeps the first port it finds.
AssignPortOnce(caller_rtp_port, port) ==
    IF caller_rtp_port = None THEN port ELSE caller_rtp_port

\* caller_rtp_port = int(parts[1]): the port after the assignment.
AssignPort(caller_rtp_port, port) == port

RECURSIVE ScanBody(_, _, _)
\* The loop over body.splitlines(): the caller's RTP port (an Optional).
ScanBody(body_lines, i, caller_rtp_port) ==
    IF i > Len(body_lines) THEN [exc |-> "none", port |-> caller_rtp_port]
    ELSE LET line == Strip(body_lines[i])
         IN  IF line = << >> THEN ScanBody(body_lines, i + 1, caller_rtp_port)
             ELSE LET kv == SplitOnce(line, Equals)
                  IN  IF Len(kv) # 2 THEN [exc |-> "ValueError", port |-> None]
                      ELSE IF kv[1] # LitM
                      THEN ScanBody(body_lines, i + 1, caller_rtp_port)
                      ELSE LET parts == Split(kv[2])
                           IN  IF parts = << >>
                               THEN [exc |-> "IndexError", port |-> None]
                               ELSE IF ~IsAudio(parts)
                               THEN ScanBody(body_lines, i + 1, caller_rtp_port)
                               ELSE IF Len(parts) < 2
                               THEN [exc |-> "IndexError", port |-> None]
                               ELSE IF ParseInt(parts[2]) = None
                               THEN [exc |-> "ValueError", port |-> None]
                               ELSE ScanBody(body_lines, i + 1,
                                             AssignPort(caller_rtp_port,
                                                        ParseInt(parts[2])))

\* The classes "except Exception" catches.
ExceptionClasses ==
    {"UnicodeDecodeError", "IndexError", "ValueError", "KeyError",
     "AssertionError"}

\* NotInvite of a handler that does not look at the method.
NotInviteNever(method) == FALSE

\* method and (method.lower() != "invite")
NotInvite(method) ==
    method # None /\ method[1] # << >> /\ Lower(method[1]) # LitInvite

\* The try block ends without a call to on_call: exc is the exception raised
\* ("none": it returned), parsed what _parse_sip had returned (an Optional).
Dropped(exc, parsed) == [exc |-> exc, parsed |-> parsed, calls |-> << >>]

\* OnServerIp with the caller's and the server's address exchanged.
OnServerIpSwapped(p, caller_rtp_port, server_ip_match, addr) ==
    IF server_ip_match = None THEN Dropped("AssertionError", Some(p))
    ELSE [exc |-> "none",
          parsed |-> Some(p),
          calls |-> << [caller_ip |-> server_ip_match[1],
                        caller_sip_port |-> addr[2],
                        caller_rtp_port |-> caller_rtp_port,
                        server_ip |-> addr[1],
                        headers |-> p.headers] >>]

\* The try block from the assert on server_ip_match: on_call(CallInfo(...)).
OnServerIp(p, caller_rtp_port, server_ip_match, addr) ==
    IF server_ip_match = None THEN Dropped("AssertionError", Some(p))
    ELSE [exc |-> "none",
          parsed |-> Some(p),
          calls |-> << [caller_ip |-> addr[1],
                        caller_sip_port |-> addr[2],
                        caller_rtp_port |-> caller_rtp_port,
                        server_ip |-> server_ip_match[1],
                        headers |-> p.headers] >>]

\* The try block after the loop over the body's lines ended as scan.
OnMedia(p, scan, addr) ==
    IF scan.exc # "none" THEN Dropped(scan.exc, Some(p))
    ELSE IF scan.port = None THEN Dropped("AssertionError", Some(p))
    ELSE IF LitTo \notin DOMAIN p.headers THEN Dropped("KeyError", Some(p))
    ELSE OnServerIp(p, scan.port[1], SIP_IP_Match(p.headers[LitTo]), addr)

\* The try block after _parse_sip ended as p.
OnParsed(p, addr) ==
    IF p.exc # "none" THEN Dropped(p.exc, None)
    ELSE IF NotInvite(p.method) THEN Dropped("none", Some(p))
    ELSE OnMedia(p, ScanBody(SplitLines(p.body), 1, None), addr)

\* The try block after data.decode() ended as message (an Optional).
OnMessage(message, addr) ==
    IF message = None THEN Dropped("UnicodeDecodeError", None)
    ELSE OnParsed(parse_sip(message[1]), addr)

\* The try block of datagram_received: the exception it raises, what
\* _parse_sip returned to it and the CallInfo objects it passes to on_call.
ReceiveBody(data, addr) == OnMessage(Decode(data), addr)

\* "except Exception" catches exc.
Caught(exc) == exc \in ExceptionClasses

\* except Exception: _LOGGER.exception(...), after the try block ended as r.
ExceptException(r) ==
    [calls |-> r.calls,
     parsed |-> r.parsed,
     logged |-> IF r.exc # "none" /\ Caught(r.exc) THEN r.exc ELSE "none",
     raised |-> IF Caught(r.exc) THEN "none" ELSE r.exc]

\* datagram_received(data, addr): what it passes to on_call, what it logs
\* and what it lets escape; parsed is what _parse_sip returned to it.
datagram_received(data, addr) == ExceptException(ReceiveBody(data, addr))

(***************************************************************************)
(* SIPDatagramProtocol.answer                                              *)
(***************************************************************************)

\* The literals of answer.
SdpVersion == Str(<<"v","=","0">>)
SdpOrigin == Str(<<"o","=">>) \o SDP_USERNAME \o Str(<<" ">>) \o SDP_ID \o Str(<<" ","1"," ","I","N"," ","I","P","4"," ">>)
SdpSession == Str(<<"s","=">>) \o SDP_USERNAME \o Str(<<" ","1",".","0">>)
SdpConnection == Str(<<"c","=","I","N"," ","I","P","4"," ">>)
SdpTime == Str(<<"t","=","0"," ","0">>)
SdpMedia == Str(<<"m","=","a","u","d","i","o"," ">>)
SdpProfile == Str(<<" ","R","T","P","/","A","V","P"," ">>) \o OPUS_PAYLOAD
SdpRtpmap == Str(<<"a","=","r","t","p","m","a","p",":">>) \o OPUS_PAYLOAD \o Str(<<" ","o","p","u","s","/","4","8","0","0","0","/","2">>)
SdpPtime == Str(<<"a","=","p","t","i","m","e",":","2","0">>)
SdpMaxptime == Str(<<"a","=","m","a","x","p","t","i","m","e",":","1","5","0">>)
SdpSendrecv == Str(<<"a","=","s","e","n","d","r","e","c","v">>)
StatusLine == Str(<<"S","I","P","/","2",".","0"," ","2","0","0"," ","O","K">>)
KeyVia == Str(<<"v","i","a">>)
KeyFrom == Str(<<"f","r","o","m">>)
KeyCallId == Str(<<"c","a","l","l","-","i","d">>)
KeyCSeq == Str(<<"c","s","e","q">>)
KeyContact == Str(<<"c","o","n","t","a","c","t">>)
KeyContentLength == Str(<<"c","o","n","t","e","n","t","-","l","e","n","g","t","h">>)
NameVia == Str(<<"V","i","a",":"," ">>)
NameFrom == Str(<<"F","r","o","m",":"," ">>)
NameTo == Str(<<"T","o",":"," ">>)
NameCallId == Str(<<"C","a","l","l","-","I","D",":"," ">>)
NameContentLength == Str(<<"C","o","n","t","e","n","t","-","L","e","n","g","t","h",":"," ">>)
NameCSeq == Str(<<"C","S","e","q",":"," ">>)
NameContact == Str(<<"C","o","n","t","a","c","t",":"," ">>)
LineContentType == Str(<<"C","o","n","t","e","n","t","-","T","y","p","e",":"," ","a","p","p","l","i","c","a","t","i","o","n","/","s","d","p">>)
LineUserAgent == Str(<<"U","s","e","r","-","A","g","e","n","t",":"," ">>) \o SDP_USERNAME \o Str(<<" ","1",".","0">>)
LineAllow == Str(<<"A","l","l","o","w",":"," ","I","N","V","I","T","E",","," ","A","C","K",","," ","B","Y","E",","," ","C","A","N","C","E","L",","," ","O","P","T","I","O","N","S">>)

\* body_lines joined with _CRLF: the SDP body.
AnswerBody(server_ip, server_rtp_port) ==
    Join(CRLF,
         << SdpVersion,
            SdpOrigin \o server_ip,
            SdpSession,
            SdpConnection \o server_ip,
            SdpTime,
            SdpMedia \o IntToStr(server_rtp_port) \o SdpProfile,
            SdpRtpmap,
            SdpPtime,
            SdpMaxptime,
            SdpSendrecv,
            CRLF >>)

\* The value of Content-Length: len(body).
ContentLength(body) == Len(body)

\* The keys answer reads from the inbound headers.
EchoedKeys == {KeyVia, KeyFrom, LitTo, KeyCallId, KeyCSeq, KeyContact}

\* Get of a lookup that defaults to the empty string, headers.get(key, "").
GetOrEmpty(headers, key) ==
    IF key \in DOMAIN headers THEN Some(headers[key]) ELSE Some(<< >>)

\* headers[key]: Some of the value, or None where it raises KeyError.
Get(headers, key) ==
    IF key \in DOMAIN headers THEN Some(headers[key]) ELSE None

\* response_headers, as "key: value" lines in the dict's order.
ResponseHeaderLines(headers, body) ==
    << NameVia \o Get(headers, KeyVia)[1],
       NameFrom \o Get(headers, KeyFrom)[1],
       NameTo \o Get(headers, LitTo)[1],
       NameCallId \o Get(headers, KeyCallId)[1],
       LineContentType,
       NameContentLength \o IntToStr(ContentLength(body)),
       NameCSeq \o Get(headers, KeyCSeq)[1],
       NameContact \o Get(headers, KeyContact)[1],
       LineUserAgent,
       LineAllow >>

\* TransportBound of an answer that does not assert it.
TransportUnchecked(transport) == TRUE

\* assert self.transport is not None
TransportBound(transport) == transport # None

\* The response and transport.sendto(response_bytes, (caller_ip,
\* caller_sip_port)), body being the SDP body.
Respond(headers, body, caller_ip, caller_sip_port) ==
    [raised |-> "none",
     sent |-> << [data |-> Encode(Join(CRLF, << StatusLine >>
                                         \o ResponseHeaderLines(headers, body)
                                         \o << CRLF >>) \o body),
                  addr |-> << caller_ip, caller_sip_port >>] >>]

\* answer(...) with self.transport = transport: the exception it raises and
\* the (data, addr) pairs it hands to transport.sendto.
answer(transport, headers, caller_ip, caller_sip_port, server_ip, server_rtp_port) ==
    IF ~TransportBound(transport)
    THEN [raised |-> "AssertionError", sent |-> << >>]
    ELSE IF \E k \in EchoedKeys : Get(headers, k) = None
    THEN [raised |-> "KeyError", sent |-> << >>]
    ELSE Respond(headers, AnswerBody(server_ip, server_rtp_port), caller_ip,
                 caller_sip_port)

(***************************************************************************)
(* The datagrams peers send.  A datagram is described by the lines it is   *)
(* made of; Render gives its bytes.                                        *)
(***************************************************************************)

FirstLines == {"INVITE", "invite", "Invite", "BYE", "ACK", "empty", "blank"}

FirstLineText ==
    [INVITE |-> Str(<<"I","N","V","I","T","E"," ","s","i","p",":","h","a"," ","S","I","P","/","2",".","0">>),
     invite |-> Str(<<"i","n","v","i","t","e"," ","s","i","p",":","h","a"," ","S","I","P","/","2",".","0">>),
     Invite |-> Str(<<"I","n","v","i","t","e"," ","s","i","p",":","h","a"," ","S","I","P","/","2",".","0">>),
     BYE    |-> Str(<<"B","Y","E"," ","s","i","p",":","h","a"," ","S","I","P","/","2",".","0">>),
     ACK    |-> Str(<<"A","C","K"," ","s","i","p",":","h","a"," ","S","I","P","/","2",".","0">>),
     empty  |-> << >>,
     blank  |-> Str(<<" "," ">>)]
FirstLine(tag) == FirstLineText[tag]

\* The values of the To header: the address alone, with a parameter, with
\* Arabic-Indic digits (U+0661 U+0669 U+0662) in the first octet, after a
\* display name, with a host name, without a port; "absent": no To header.
ToValues ==
    {"plain", "tagged", "arabic", "display", "hostname", "noport", "absent"}

ToValueText ==
    [plain    |-> Str(<<"<","s","i","p",":","1","9","2",".","0",".","2",".","1","0",":","5","0","6","0",">">>),
     tagged   |-> Str(<<"<","s","i","p",":","1","9","2",".","0",".","2",".","1","0",":","5","0","6","0",">",";","t","a","g","=","a","b","c">>),
     arabic   |-> Str(<<"<","s","i","p",":">>) \o << 1633, 1641, 1634 >>
                      \o Str(<<".","0",".","2",".","1","0",":","5","0","6","0",">",";","t","a","g","=","a","b","c">>),
     display  |-> Str(<<"\"","H","A","\""," ","<","s","i","p",":","1","9","2",".","0",".","2",".","1","0",":","5","0","6","0",">">>),
     hostname |-> Str(<<"<","s","i","p",":","h","a",".","l","o","c","a","l",":","5","0","6","0",">">>),
     noport   |-> Str(<<"<","s","i","p",":","1","9","2",".","0",".","2",".","1","0",">">>)]
ToValue(tag) == ToValueText[tag]

\* The address inside a To value that has one.
ToAddressText ==
    [plain |-> Str(<<"1","9","2",".","0",".","2",".","1","0">>), tagged |-> Str(<<"1","9","2",".","0",".","2",".","1","0">>),
     arabic |-> << 1633, 1641, 1634 >> \o Str(<<".","0",".","2",".","1","0">>)]
ToAddress(tag) == ToAddressText[tag]

\* The headers beside To: "none", the five others answer echoes ("echoed"),
\* those and a line without a colon ("nocolon").
HeaderBlocks == {"none", "echoed", "nocolon"}

OtherHeaders ==
    << Str(<<"V","i","a",":"," ","S","I","P","/","2",".","0","/","U","D","P"," ","p","c","3","3">>),
       Str(<<"F","r","o","m",":"," ","<","s","i","p",":","b","o","b","@","p","c","3","3",">">>),
       Str(<<"C","a","l","l","-","I","D",":"," ","a","8","4","b","4","c","7","6">>),
       Str(<<"C","S","e","q",":"," ","1"," ","I","N","V","I","T","E">>),
       Str(<<"C","O","N","T","A","C","T",":"," "," ","<","s","i","p",":","b","o","b","@","p","c","3","3",">"," "," ">>) >>
LineTo == Str(<<"T","o",":"," ">>)
LineNoColon == Str(<<"M","a","x","-","F","o","r","w","a","r","d","s"," ","7","0">>)

\* The header lines of a datagram: To, where there is one, comes third.
HeaderLines(block, to) ==
    LET toLine == IF to = "absent" THEN << >> ELSE << LineTo \o ToValue(to) >>
    IN  CASE block = "none"    -> toLine
          [] block = "echoed"  -> SubSeq(OtherHeaders, 1, 2) \o toLine
                                      \o SubSeq(OtherHeaders, 3, 5)
          [] block = "nocolon" -> SubSeq(OtherHeaders, 1, 2) \o toLine
                                      \o << LineNoColon >>
                                      \o SubSeq(OtherHeaders, 3, 5)

\* The lines of a session description.
BodyLines ==
    {"audio1", "audio2", "video", "noport", "badport", "version", "noequals"}

BodyLineText ==
    [audio1   |-> Str(<<"m","=","a","u","d","i","o"," ","4","9","1","7","0"," ","R","T","P","/","A","V","P"," ","0">>),
     audio2   |-> Str(<<"m","=","a","u","d","i","o"," ","5","0","0","4"," ","R","T","P","/","A","V","P"," ","0">>),
     video    |-> Str(<<"m","=","v","i","d","e","o"," ","5","1","3","7","2"," ","R","T","P","/","A","V","P"," ","3","1">>),
     noport   |-> Str(<<"m","=","a","u","d","i","o">>),
     badport  |-> Str(<<"m","=","a","u","d","i","o"," ","r","t","p"," ","R","T","P","/","A","V","P"," ","0">>),
     version  |-> Str(<<"v","=","0">>),
     noequals |-> Str(<<"t"," ","0"," ","0">>)]
BodyLine(tag) == BodyLineText[tag]

\* The port an m=audio line names.
AudioPort(tag) == IF tag = "audio1" THEN 49170 ELSE 5004

\* How many lines a body has at most.
MaxBodyLines == 2

Bodies ==
    UNION { [1..n -> BodyLines] : n \in 0..MaxBodyLines }

\* The line terminator a peer uses.
Terminators == {"CRLF", "LF"}
LF == Str(<<"\n">>)
Terminator(tag) == IF tag = "CRLF" THEN CRLF ELSE LF

\* Bytes after the text: none, a byte no UTF-8 text holds, the first byte of
\* a two-byte character without its second.
Junk == {"none", "invalid", "truncated"}
JunkBytes(tag) ==
    CASE tag = "none" -> << >> [] tag = "invalid" -> << 255 >>
      [] tag = "truncated" -> << 217 >>

\* Where datagrams come from: (address, port).
Source1 == << Str(<<"1","9","8",".","5","1",".","1","0","0",".","7">>), 5060 >>
Source2 == << Str(<<"2","0","3",".","0",".","1","1","3",".","9">>), 49152 >>
Sources == {Source1, Source2}

\* The invitation of the spec's examples, without its body.
Canonical ==
    [first |-> "INVITE", block |-> "echoed", to |-> "tagged", body |-> << >>,
     eol |-> "CRLF", junk |-> "none", addr |-> Source1]

\* The canonical invitation with at most one field changed.
Heads ==
    {[Canonical EXCEPT !.first = v] : v \in FirstLines}
        \cup {[Canonical EXCEPT !.block = v] : v \in HeaderBlocks}
        \cup {[Canonical EXCEPT !.to = v] : v \in ToValues}
        \cup {[Canonical EXCEPT !.eol = v] : v \in Terminators}
        \cup {[Canonical EXCEPT !.junk = v] : v \in Junk}
        \cup {[Canonical EXCEPT !.addr = v] : v \in Sources}

\* The datagrams sent: each head with each body.
Datagrams == {[h EXCEPT !.body = b] : h \in Heads, b \in Bodies}

\* Each line followed by the terminator.
Terminated(lines, eol) ==
    Concat([i \in 1..Len(lines) |-> lines[i] \o eol], 1, Len(lines))

\* The text of the body of d.
BodyText(d) ==
    Terminated([i \in 1..Len(d.body) |-> BodyLine(d.body[i])], Terminator(d.eol))

\* The text of d: the first line, the headers, a blank line, the body.
Text(d) ==
    Terminated(<< FirstLine(d.first) >> \o HeaderLines(d.block, d.to) \o << << >> >>,
               Terminator(d.eol))
        \o BodyText(d)

\* The bytes of d.
Render(d) == Encode(Text(d)) \o JunkBytes(d.junk)

\* The arguments of answer that do not come from an invitation.
SampleCalls ==
    { [caller_ip |-> Str(<<"1","9","8",".","5","1",".","1","0","0",".","7">>), caller_sip_port |-> 5060,
       caller_rtp_port |-> 49170, server_ip |-> Str(<<"1","9","2",".","0",".","2",".","1","0">>),
       headers |-> h] :
        h \in { [k \in EchoedKeys |-> Str(<<"x">>)],
                [k \in {LitTo} |-> Str(<<"<","s","i","p",":","1","9","2",".","0",".","2",".","1","0",":","5","0","6","0",">">>)] } }

\* The local RTP ports the collaborator answers with.
RtpPorts == {5004, 49200}

(***************************************************************************)
(* The protocol object, the network and the collaborator.                  *)
(***************************************************************************)

VARIABLES
    transport,  \* self.transport: None, or Some of the bound transport
    network,    \* the datagram in flight to the socket: None or Some(d)
    op,         \* the last step taken
    datagram,   \* the datagram the last datagram_received was called with
    parsed,     \* what _parse_sip returned to that call (an Optional)
    calls,      \* the CallInfo objects that call passed to on_call
    logged,     \* the exception that call logged
    raised,     \* the exception the last call let escape to its caller
    args,       \* the arguments of the last answer
    sent        \* the (data, addr) pairs that answer handed to the transport

vars ==
    << transport, network, op, datagram, parsed, calls, logged, raised, args,
       sent >>

Init ==
    /\ transport = None
    /\ network = None
    /\ op = "init"
    /\ datagram = None
    /\ parsed = None
    /\ calls = << >>
    /\ logged = "none"
    /\ raised = "none"
    /\ args = None
    /\ sent = << >>

\* The event loop binds the socket and calls connection_made, once.
ConnectionMade ==
    /\ transport = None
    /\ transport' = Some("udp")
    /\ op' = "connection_made"
    /\ datagram' = None /\ parsed' = None /\ calls' = << >>
    /\ logged' = "none" /\ raised' = "none" /\ args' = None /\ sent' = << >>
    /\ UNCHANGED network

\* A peer sends a datagram to the bound socket.
Send ==
    /\ transport # None
    /\ network = None
    /\ op \in {"connection_made", "idle"}
    /\ \E d \in Datagrams : network' = Some(d)
    /\ op' = "send"
    /\ datagram' = None /\ parsed' = None /\ calls' = << >>
    /\ logged' = "none" /\ raised' = "none" /\ args' = None /\ sent' = << >>
    /\ UNCHANGED transport

\* The event loop calls datagram_received with the datagram in flight.
DatagramReceived ==
    /\ network # None
    /\ \E r \in {datagram_received(Render(network[1]), network[1].addr)} :
           /\ calls' = r.calls
           /\ parsed' = r.parsed
           /\ logged' = r.logged
           /\ raised' = r.raised
    /\ datagram' = network
    /\ network' = None
    /\ op' = "datagram_received"
    /\ args' = None /\ sent' = << >>
    /\ UNCHANGED transport

\* What the collaborator can answer now: the invitations on_call was just
\* given or, with none at hand, the samples.
Answerable ==
    IF datagram # None THEN {calls[i] : i \in 1..Len(calls)} ELSE SampleCalls

\* The collaborator calls answer.
Answer ==
    /\ network = None
    /\ op # "answer"
    /\ \E c \in Answerable, server_rtp_port \in RtpPorts :
        \E r \in {answer(transport, c.headers, c.caller_ip, c.caller_sip_port,
                         c.server_ip, server_rtp_port)} :
            /\ raised' = r.raised
            /\ sent' = r.sent
            /\ args' = Some([call |-> c, server_rtp_port |-> server_rtp_port])
    /\ op' = "answer"
    /\ UNCHANGED << transport, network, datagram, parsed, calls, logged >>

\* The call returns and the event loop waits for the next event.
Idle ==
    /\ op \in {"datagram_received", "answer"}
    /\ op' = "idle"
    /\ datagram' = None /\ parsed' = None /\ calls' = << >>
    /\ logged' = "none" /\ raised' = "none" /\ args' = None /\ sent' = << >>
    /\ UNCHANGED << transport, network >>

Next ==
    \/ ConnectionMade
    \/ Idle
    \/ Send
    \/ DatagramReceived
    \/ Answer

Spec == Init /\ [][Next]_vars

(***************************************************************************)
(* The vocabulary of the properties: what a datagram is, read from the     *)
(* lines it is made of and not from what the parser makes of them.         *)
(***************************************************************************)

\* datagram_received has just returned; Delivery is the datagram it was given.
Delivered == op = "datagram_received"
Delivery == datagram[1]

\* answer has just returned; Answered is the invitation it was given.
AnswerReturned == op = "answer"
Answered == args[1].call

\* The first line's method is INVITE in some spelling.
InviteLine(d) == d.first \in {"INVITE", "invite", "Invite"}

\* The first line has a method and it is not INVITE.
OtherMethod(d) == d.first \in {"BYE", "ACK"}

\* The To header matches <sip:A.B.C.D:port>, parameters or not.
ToMatches(d) == d.to \in {"plain", "tagged", "arabic"}

\* The indices of the body's usable m=audio lines, and the ports they name.
AudioLines(d) == {i \in 1..Len(d.body) : d.body[i] \in {"audio1", "audio2"}}
AudioPorts(d) == {AudioPort(d.body[i]) : i \in AudioLines(d)}
FirstAudio(d) == CHOOSE i \in AudioLines(d) : \A j \in AudioLines(d) : i <= j
LastAudio(d) == CHOOSE i \in AudioLines(d) : \A j \in AudioLines(d) : j <= i

\* One of the malformations: bytes that are not text, no method, a header
\* line without ":", a body line without "=", no To header.
Malformed(d) ==
    \/ d.junk # "none"
    \/ d.first \in {"empty", "blank"}
    \/ d.block = "nocolon"
    \/ \E i \in 1..Len(d.body) : d.body[i] = "noequals"
    \/ d.to = "absent"

\* A well-formed CRLF-terminated INVITE: text, a method, headers with ":",
\* a To header that matches, body lines that are all key=value, no m=audio
\* line without a port, and an m=audio line with one.
WellFormed(d) ==
    /\ d.junk = "none"
    /\ InviteLine(d)
    /\ d.block \in {"none", "echoed"}
    /\ ToMatches(d)
    /\ d.eol = "CRLF"
    /\ \A i \in 1..Len(d.body) : d.body[i] \in {"audio1", "audio2", "video", "version"}
    /\ AudioLines(d) # {}

\* The header mapping of d: lower-case names, values without the spaces
\* around them.
EchoedHeaderValues ==
    (KeyVia :> Str(<<"S","I","P","/","2",".","0","/","U","D","P"," ","p","c","3","3">>))
        @@ (KeyFrom :> Str(<<"<","s","i","p",":","b","o","b","@","p","c","3","3",">">>))
        @@ (KeyCallId :> Str(<<"a","8","4","b","4","c","7","6">>))
        @@ (KeyCSeq :> Str(<<"1"," ","I","N","V","I","T","E">>))
        @@ (KeyContact :> Str(<<"<","s","i","p",":","b","o","b","@","p","c","3","3",">">>))
ExpectedHeaders(d) ==
    (IF d.to = "absent" THEN << >> ELSE (LitTo :> ToValue(d.to)))
        @@ (IF d.block = "none" THEN << >> ELSE EchoedHeaderValues)

\* Where the first blank line of CRLF-terminated bytes ends (the index of
\* its last byte), 0 where there is none.
SeparatorEnd(b) ==
    LET at == {i \in 4..Len(b) : SubSeq(b, i - 3, i) = CRLF \o CRLF}
    IN  IF at = {} THEN 0 ELSE CHOOSE i \in at : \A j \in at : i <= j

(***************************************************************************)
(* The properties.                                                         *)
(***************************************************************************)

\* C1: whatever was delivered before, datagram_received lets no fault
\* escape, a malformed datagram (bytes that are not text, no method, a
\* header line without ":", a body line without "=", no To header) emits
\* no invitation, and a well-formed INVITE emits exactly one.
C1_ReceiveIsTotalAndStrict ==
    Delivered =>
        /\ raised = "none"
        /\ Malformed(Delivery) => calls = << >>
        /\ WellFormed(Delivery) => Len(calls) = 1

\* C2: a well-formed CRLF-terminated INVITE from (address, port) with an
\* m=audio line and a matching To header emits exactly one invitation:
\* caller_ip and caller_sip_port are the source's, caller_rtp_port is the
\* integer of an m=audio line, server_ip is the address part of To alone,
\* headers is the whole header mapping of the datagram.
C2_WellFormedInviteEmits ==
    Delivered /\ WellFormed(Delivery) =>
        /\ Len(calls) = 1
        /\ calls[1].caller_ip = Delivery.addr[1]
        /\ calls[1].caller_sip_port = Delivery.addr[2]
        /\ calls[1].caller_rtp_port \in AudioPorts(Delivery)
        /\ calls[1].server_ip = ToAddress(Delivery.to)
        /\ calls[1].headers = ExpectedHeaders(Delivery)
        /\ logged = "none" /\ raised = "none"

C2_Witness ==
    /\ Delivered
    /\ Delivery = [Canonical EXCEPT !.body = << "version", "audio1" >>,
                                    !.addr = Source2]
    /\ Len(calls) = 1
    /\ calls[1].caller_ip = Source2[1]
    /\ calls[1].caller_rtp_port = 49170
    /\ calls[1].server_ip = ToAddress("tagged")

\* C3: a datagram whose method is present and is not INVITE emits no
\* invitation, whatever its headers and body; "invite" and "Invite" are the
\* invitation method.
C3_OnlyInviteEmits ==
    Delivered =>
        /\ OtherMethod(Delivery) => calls = << >> /\ raised = "none"
        /\ (Delivery.first \in {"invite", "Invite"} /\ WellFormed(Delivery))
               => Len(calls) = 1

C3_Witness ==
    /\ Delivered
    /\ Delivery = [Canonical EXCEPT !.first = "BYE", !.body = << "audio1" >>]
    /\ calls = << >>
    /\ logged = "none"

\* C4: an INVITE whose body has no usable m=audio line (no line, no media
\* line, media lines of another type, an m=audio line without a port or
\* with one that is no integer) emits no invitation; it is dropped with a
\* logged error and no fault leaves datagram_received.
C4_NoAudioPortNoInvitation ==
    Delivered /\ InviteLine(Delivery) /\ AudioLines(Delivery) = {} =>
        /\ calls = << >>
        /\ logged # "none"
        /\ raised = "none"

C4_Witness ==
    /\ Delivered
    /\ Delivery = [Canonical EXCEPT !.body = << "version", "video" >>]
    /\ calls = << >>
    /\ logged = "AssertionError"

C6_AnswerNeedsTransport ==
    AnswerReturned =>
        /\ transport = None => raised = "AssertionError" /\ sent = << >>
        /\ (transport # None /\ EchoedKeys \subseteq DOMAIN Answered.headers)
               => /\ raised = "none"
                  /\ Len(sent) = 1
                  /\ sent[1].addr = << Answered.caller_ip,
                                       Answered.caller_sip_port >>

C6_Witness ==
    /\ AnswerReturned
    /\ transport = None
    /\ EchoedKeys \subseteq DOMAIN Answered.headers
    /\ raised = "AssertionError"
    /\ sent = << >>

\* C7: the bytes answer sends, parsed again by _parse_sip, give back via,
\* from, to, call-id, cseq and contact unchanged, and the value of their
\* Content-Length header is the number of bytes after the blank line that
\* ends the headers.
C7_AnswerRoundTrip ==
    AnswerReturned /\ sent # << >> =>
        /\ Decode(sent[1].data) # None
        /\ \A k \in EchoedKeys :
               parse_sip(Decode(sent[1].data)[1]).headers[k]
                   = Answered.headers[k]
        /\ SeparatorEnd(sent[1].data) > 0
        /\ parse_sip(Decode(sent[1].data)[1]).headers[KeyContentLength]
               = IntToStr(Len(sent[1].data) - SeparatorEnd(sent[1].data))

\* C8: the body _parse_sip returns is everything after the first blank line
\* of the message, without the blank line and without header text, and the
\* headers are the lines between the first line and the first blank line.
C8_BodyAfterBlankLine ==
    Delivered /\ parsed # None =>
        /\ parsed[1].body = BodyText(Delivery)
        /\ parsed[1].headers = ExpectedHeaders(Delivery)

\* C9, as the spec states it: of several m=audio lines with different ports
\* the first determines caller_rtp_port.
C9_FirstAudioLineWins ==
    Delivered /\ calls # << >> /\ Cardinality(AudioPorts(Delivery)) > 1 =>
        calls[1].caller_rtp_port
            = AudioPort(Delivery.body[FirstAudio(Delivery)])

\* C9, amended: of several m=audio lines the last determines
\* caller_rtp_port; an invitation is emitted only for a body with such a
\* line, and each m=audio line overrides the ones before it.
C9_LastAudioLineWins ==
    Delivered /\ calls # << >> =>
        /\ AudioLines(Delivery) # {}
        /\ calls[1].caller_rtp_port
               = AudioPort(Delivery.body[LastAudio(Delivery)])

C9_Witness ==
    /\ Delivered
    /\ Delivery = [Canonical EXCEPT !.body = << "audio1", "audio2" >>]
    /\ Len(calls) = 1
    /\ calls[1].caller_rtp_port = 5004

\* C10: answer with a bound transport and headers that lack one of via,
\* from, to, call-id, cseq, contact fails with an error that reaches its
\* caller and sends nothing; an INVITE that carries only a To header emits
\* an invitation with such headers.
C10_AnswerNeedsEchoedHeaders ==
    /\ (AnswerReturned /\ transport # None
            /\ ~(EchoedKeys \subseteq DOMAIN Answered.headers))
           => raised = "KeyError" /\ sent = << >>
    /\ (Delivered /\ WellFormed(Delivery) /\ Delivery.block = "none")
           => Len(calls) = 1 /\ DOMAIN calls[1].headers = {LitTo}

C10_Witness ==
    /\ AnswerReturned
    /\ transport # None
    /\ datagram # None
    /\ Delivery.block = "none"
    /\ Answered = calls[1]
    /\ DOMAIN Answered.headers = {LitTo}
    /\ raised = "KeyError"
    /\ sent = << >>

=============================================================================
